---- MODULE Spec2Model ----
(***************************************************************************)
(* q2-deblur, q2_deblur/plugin_setup.py: the wrapper around the external   *)
(* `deblur workflow` executable.  An invocation of denoise_16S or          *)
(* denoise_other runs _denoise_helper: it creates a temporary directory,   *)
(* builds the command line, runs the external process, loads               *)
(* reference-hit.biom from the directory, cleans the sample identifiers,   *)
(* assigns the feature identifiers (MD5 or identity), pairs every feature  *)
(* with its sequence record, leaves the directory's scope and returns.     *)
(*                                                                         *)
(* Identifiers (sample ids, sequences, digests) are tuples of one-character*)
(* strings so that split('_'), upper-casing and the hexadecimal alphabet   *)
(* are computed; command-line tokens are strings.  An optional value is    *)
(* <<>> (None) or <<v>>.                                                   *)
(***************************************************************************)
EXTENDS Integers, Sequences, FiniteSets

VARIABLES
    md5,            \* hashlib.md5(...).hexdigest: sequence -> 32 hex characters
    fs,             \* the temporary directories: name -> [exists, file]
    pc,             \* where each invocation stands
    call,           \* the public function called and its arguments
    tmp,            \* the invocation's temporary directory (<<>> before mkdtemp)
    cmd,            \* the argument list handed to subprocess.run
    proc,           \* the external process's exit status and the table it wrote
    loaded,         \* the table as biom.load_table returned it: <<>> or <<table>>
    table,          \* the local variable `table`: <<>> or <<table>>
    obs_map,        \* the local variable `obs_map`: original id -> new id
    rep_sequences,  \* the records the DNAIterator yields, in order
    exc,            \* the exception propagating out of the invocation, or <<>>
    result,         \* what the call returned: <<>> or <<table, rep_sequences>>
    log             \* the steps the invocation has taken, in order

vars == <<md5, fs, pc, call, tmp, cmd, proc, loaded, table, obs_map,
          rep_sequences, exc, result, log>>

----------------------------------------------------------------------------
(* Bounds of the model.                                                    *)

\* The longest sample axis of a table the external tool writes.
MaxSamples == 2
\* The longest observation (feature) axis of a table the external tool writes.
MaxFeatures == 2
\* How many names tempfile can draw a directory name from.
NumTmpNames == 2

----------------------------------------------------------------------------
(* Values.                                                                 *)

None == <<>>
Some(x) == <<x>>

Range(s) == {s[k] : k \in 1..Len(s)}
IsDistinct(s) == \A j, k \in 1..Len(s) : j # k => s[j] # s[k]
DistinctSeqs(S, n) ==
    UNION {{s \in [1..m -> S] : IsDistinct(s)} : m \in 0..n}

\* Sample identifiers the external tool writes: a name and a per-file suffix,
\* two files of one sample, no delimiter, several delimiters with a leading
\* one.
SampleIdPool ==
    { <<"S","1","_","0","0","1">>, <<"S","2","_","0","0","2">>,
      <<"S","1","_","0","0","2">>, <<"S","3">>, <<"_","b","_","c">> }

\* Observation identifiers the external tool writes: the sequences themselves.
\* A sequence may hold lower-case nucleotides (line 128 asks skbio to accept
\* them).
SequencePool ==
    { <<"A","C","G">>, <<"T","T","A">>, <<"a","C","g">> }

HexDigits ==
    {"0","1","2","3","4","5","6","7","8","9","a","b","c","d","e","f"}
\* The length of an MD5 hexdigest.
DigestLen == 32
\* Digests the hash can produce in the model (two values, so that two
\* sequences can collide).
DigestA == [k \in 1..DigestLen |-> IF k % 2 = 1 THEN "d" ELSE "4"]
DigestB == [k \in 1..DigestLen |-> IF k % 3 = 1 THEN "0" ELSE "f"]
Digests == {DigestA, DigestB}

\* The hash functions: every way the sequences can share or not share a
\* digest (which of the two digests a sequence gets is a naming, fixed by
\* the first sequence).
Hashes == {h \in [SequencePool -> Digests] : h[<<"A","C","G">>] = DigestA}

\* Every table biom.load_table can return: both axes hold distinct ids.
Tables(samplePool, seqPool) ==
    [sample_ids : DistinctSeqs(samplePool, MaxSamples),
     observation_ids : DistinctSeqs(seqPool, MaxFeatures)]

----------------------------------------------------------------------------
(* str() of the parameters (lines 107-112).                                *)

Digit(d) ==
    CASE d = 0 -> "0" [] d = 1 -> "1" [] d = 2 -> "2" [] d = 3 -> "3"
      [] d = 4 -> "4" [] d = 5 -> "5" [] d = 6 -> "6" [] d = 7 -> "7"
      [] d = 8 -> "8" [] d = 9 -> "9"

RECURSIVE NatStr(_)
NatStr(n) == IF n < 10 THEN Digit(n) ELSE NatStr(n \div 10) \o Digit(n % 10)

\* IntStr with the sign lost.
IntStr_Unsigned(n) == IF n < 0 THEN NatStr(-n) ELSE NatStr(n)

\* str(n) of a Python int.
IntStr(n) == IF n < 0 THEN "-" \o NatStr(-n) ELSE NatStr(n)

\* str(x) of the Python float x = m / 1000, for 0 <= m < 1000: the shortest
\* decimal, "0.005" for m = 5, "0.01" for m = 10, "0.5" for m = 500, "0.0"
\* for m = 0.
FloatStr(m) ==
    IF m = 0 THEN "0.0"
    ELSE IF m % 100 = 0 THEN "0." \o Digit(m \div 100)
    ELSE IF m % 10 = 0 THEN "0." \o Digit(m \div 100) \o Digit((m \div 10) % 10)
    ELSE "0." \o Digit(m \div 100) \o Digit((m \div 10) % 10) \o Digit(m % 10)

TmpName(k) == "/tmp/tmp" \o IntStr(k)
TmpNames == {TmpName(k) : k \in 1..NumTmpNames}

----------------------------------------------------------------------------
(* Identifier rewriting.                                                   *)

Min(S) == CHOOSE x \in S : \A y \in S : x <= y

Max(S) == CHOOSE x \in S : \A y \in S : x >= y

\* SplitFirst cutting at the last '_' (rsplit('_', 1)[0]) instead of the first.
SplitFirst_AtLast(id) ==
    LET at == {k \in 1..Len(id) : id[k] = "_"}
    IN  IF at = {} THEN id ELSE SubSeq(id, 1, Max(at) - 1)

\* id_.split('_')[0]: the characters before the first '_', the whole string
\* when it holds none.
SplitFirst(id) ==
    LET at == {k \in 1..Len(id) : id[k] = "_"}
    IN  IF at = {} THEN id ELSE SubSeq(id, 1, Min(at) - 1)

\* Line 30: {id_: id_.split('_')[0] for id_ in table.ids(axis='sample')}.
sid_map(ids) == [id \in Range(ids) |-> SplitFirst(id)]

\* update_ids without the check for duplicate ids.
update_ids_Unchecked(ids, id_map, emptyRaises) ==
    IF DOMAIN id_map = {} /\ emptyRaises
    THEN [ids |-> ids, error |-> Some("ValueError")]
    ELSE [ids |-> [k \in 1..Len(ids) |-> id_map[ids[k]]], error |-> None]

\* biom.Table.update_ids(id_map, axis, strict=True, inplace=True) on one axis:
\* the axis after the call and the exception it raises, if any.  Every id of
\* the axis has an entry in id_map (the callers build it from the axis).  The
\* ids are replaced in place and the table is then checked for duplicate
\* ids, which raise TableException.  The width of the new id array is
\* max(len(v) for v in id_map.values()), which raises ValueError on an empty
\* map in the releases that compute it eagerly: emptyRaises chooses.
update_ids(ids, id_map, emptyRaises) ==
    IF DOMAIN id_map = {} /\ emptyRaises
    THEN [ids |-> ids, error |-> Some("ValueError")]
    ELSE LET updated == [k \in 1..Len(ids) |-> id_map[ids[k]]]
         IN  [ids |-> updated,
              error |-> IF IsDistinct(updated) THEN None
                        ELSE Some("TableException")]

IsLower(c) == c \in {"a", "c", "g", "t"}
Upper(c) ==
    CASE c = "a" -> "A" [] c = "c" -> "C" [] c = "g" -> "G" [] c = "t" -> "T"
      [] OTHER -> c

\* DNA with the sequence itself as the record's id.
DNA_IdIsSequence(k, v) ==
    [id |-> k,
     sequence |-> [p \in 1..Len(k) |-> Upper(k[p])],
     ignore |-> [p \in 1..Len(k) |-> IsLower(k[p])]]

\* skbio.DNA(k, metadata={'id': v}, lowercase='ignore'): the record holds the
\* sequence with its lower-case characters converted to upper case, and the
\* positions that were lower case as the boolean positional metadata column
\* named 'ignore'.
DNA(k, v) ==
    [id |-> v,
     sequence |-> [p \in 1..Len(k) |-> Upper(k[p])],
     ignore |-> [p \in 1..Len(k) |-> IsLower(k[p])]]

\* The orders in which a dict of these keys can be iterated.
Orderings(S) ==
    {f \in [1..Cardinality(S) -> S] : \A x \in S : \E k \in DOMAIN f : f[k] = x}

----------------------------------------------------------------------------
(* The arguments callers pass.                                             *)

\* Floats are given in thousandths (mean_error 5 is 0.005).
ArgSets(trims, errors, probs, indels, reads, sizes, jobs, hashed) ==
    [demultiplexed_seqs : {"/data/demux"},
     trim_length : trims, mean_error : errors, indel_prob : probs,
     indel_max : indels, min_reads : reads, min_size : sizes,
     jobs_to_start : jobs, hashed_feature_ids : hashed]

References == {"/data/ref.fna"}

\* The arguments of _denoise_helper as the public function forwards them.
HelperArgs(fn, a, ref) ==
    [fn |-> fn,
     demultiplexed_seqs |-> a.demultiplexed_seqs,
     reference_seqs |-> ref,
     trim_length |-> a.trim_length,
     mean_error |-> a.mean_error,
     indel_prob |-> a.indel_prob,
     indel_max |-> a.indel_max,
     min_reads |-> a.min_reads,
     min_size |-> a.min_size,
     jobs_to_start |-> a.jobs_to_start,
     hashed_feature_ids |-> a.hashed_feature_ids]

Args(i) == call[i][1]

----------------------------------------------------------------------------
(* The command line (lines 103-116).                                       *)

Cmd(a, dir) ==
    <<"deblur", "workflow",
      "--seqs-fp", a.demultiplexed_seqs,
      "--output-dir", dir,
      "--mean-error", FloatStr(a.mean_error),
      "--indel-prob", FloatStr(a.indel_prob),
      "--indel-max", IntStr(a.indel_max),
      "--trim-length", IntStr(a.trim_length),
      "--min-reads", IntStr(a.min_reads),
      "--min-size", IntStr(a.min_size),
      "-w">>
    \o (IF a.reference_seqs # None
        THEN <<"--pos-ref-fp", a.reference_seqs[1]>>
        ELSE <<>>)

\* The value that follows `flag` on a command line.
ValueOf(c, flag) == c[(CHOOSE k \in 1..Len(c) : c[k] = flag) + 1]

----------------------------------------------------------------------------
(* The file system of temporary directories.                               *)

Absent == [exists |-> FALSE, file |-> None]
Empty == [exists |-> TRUE, file |-> None]

\* FreshNames without the test that the name is free.
FreshNames_AnyName(f) == TmpNames

\* tempfile.mkdtemp: the names it may pick, none of them an existing one.
FreshNames(f) == {n \in TmpNames : ~ f[n].exists}

\* TemporaryDirectory.cleanup: the directory and what it holds are removed.
Rmtree(f, dir) == [f EXCEPT ![dir] = Absent]

\* The external process writes reference-hit.biom into its --output-dir.
WriteBiom(f, dir, t) ==
    IF f[dir].exists THEN [f EXCEPT ![dir].file = Some(t)] ELSE f

\* CheckStatus of subprocess.run(cmd) without check=True.
CheckStatus_Unchecked(status) == None

\* subprocess.run(cmd, check=True): CalledProcessError on a non-zero status.
CheckStatus(status) == IF status # 0 THEN Some("CalledProcessError") ELSE None

\* biom_load_table answering a missing file with an empty table.
biom_load_table_Lenient(f, base_path) ==
    IF f[base_path].exists /\ f[base_path].file # None
    THEN [table |-> f[base_path].file, error |-> None]
    ELSE [table |-> Some([sample_ids |-> <<>>, observation_ids |-> <<>>]),
          error |-> None]

\* biom.load_table(os.path.join(base_path, 'reference-hit.biom')).
biom_load_table(f, base_path) ==
    IF f[base_path].exists /\ f[base_path].file # None
    THEN [table |-> f[base_path].file, error |-> None]
    ELSE [table |-> None, error |-> Some("IOError")]

----------------------------------------------------------------------------
(* The state after import: no invocation has started, no directory exists. *)

Invocations == {1, 2}

InitWith(hashes) ==
    /\ md5 \in hashes
    /\ fs = [n \in TmpNames |-> Absent]
    /\ pc = [i \in Invocations |-> "idle"]
    /\ call = [i \in Invocations |-> None]
    /\ tmp = [i \in Invocations |-> None]
    /\ cmd = [i \in Invocations |-> <<>>]
    /\ proc = [i \in Invocations |-> None]
    /\ loaded = [i \in Invocations |-> None]
    /\ table = [i \in Invocations |-> None]
    /\ obs_map = [i \in Invocations |-> None]
    /\ rep_sequences = [i \in Invocations |-> <<>>]
    /\ exc = [i \in Invocations |-> None]
    /\ result = [i \in Invocations |-> None]
    /\ log = [i \in Invocations |-> <<>>]

Goto(i, label, step) ==
    /\ pc' = [pc EXCEPT ![i] = label]
    /\ log' = [log EXCEPT ![i] = @ \o step]

\* Raise e out of the with block (e = None: go on at `next`).
GotoOrRaise(i, e, next, step) ==
    /\ exc' = [exc EXCEPT ![i] = e]
    /\ Goto(i, IF e = None THEN next ELSE "exit", step)

----------------------------------------------------------------------------
(* The public functions (lines 44-87).                                     *)

denoise_16S(i, argSet) ==
    /\ pc[i] = "idle"
    /\ \E a \in argSet :
         call' = [call EXCEPT ![i] = Some(HelperArgs("denoise_16S", a, None))]
    /\ Goto(i, "enter", <<>>)
    /\ UNCHANGED <<md5, fs, tmp, cmd, proc, loaded, table, obs_map,
                   rep_sequences, exc, result>>

denoise_other(i, argSet) ==
    /\ pc[i] = "idle"
    /\ \E a \in argSet, r \in References :
         call' = [call EXCEPT ![i] = Some(HelperArgs("denoise_other", a, Some(r)))]
    /\ Goto(i, "enter", <<>>)
    /\ UNCHANGED <<md5, fs, tmp, cmd, proc, loaded, table, obs_map,
                   rep_sequences, exc, result>>

----------------------------------------------------------------------------
(* _denoise_helper (lines 90-131), one action per statement.               *)

\* Line 102: with tempfile.TemporaryDirectory() as tmp.
TemporaryDirectoryEnter(i) ==
    /\ pc[i] = "enter"
    /\ \E n \in FreshNames(fs) :
         /\ fs' = [fs EXCEPT ![n] = Empty]
         /\ tmp' = [tmp EXCEPT ![i] = Some(n)]
    /\ Goto(i, "build", <<"mkdtemp">>)
    /\ UNCHANGED <<md5, call, cmd, proc, loaded, table, obs_map,
                   rep_sequences, exc, result>>

\* Lines 103-116.
BuildCmd(i) ==
    /\ pc[i] = "build"
    /\ cmd' = [cmd EXCEPT ![i] = Cmd(Args(i), tmp[i][1])]
    /\ Goto(i, "run", <<"cmd">>)
    /\ UNCHANGED <<md5, fs, call, tmp, proc, loaded, table, obs_map,
                   rep_sequences, exc, result>>

\* Line 118: the external process runs to its end.  It exits with any status
\* and has or has not written a table into the directory its command line
\* names.
subprocess_run(i, tables) ==
    /\ pc[i] = "run"
    /\ \E status \in {0, 1}, wrote \in BOOLEAN, t \in tables :
         /\ fs' = IF wrote
                  THEN WriteBiom(fs, ValueOf(cmd[i], "--output-dir"), t)
                  ELSE fs
         /\ proc' = [proc EXCEPT ![i] =
                        Some([status |-> status,
                              wrote |-> IF wrote THEN Some(t) ELSE None])]
         /\ GotoOrRaise(i, CheckStatus(status), "load", <<"run">>)
    /\ UNCHANGED <<md5, call, tmp, cmd, loaded, table, obs_map,
                   rep_sequences, result>>

\* Line 120, _load_table (lines 27-32).
load_table(i) ==
    /\ pc[i] = "load"
    /\ LET read == biom_load_table(fs, tmp[i][1])
       IN  IF read.error # None
           THEN /\ GotoOrRaise(i, read.error, "assign", <<>>)
                /\ UNCHANGED <<loaded, table>>
           ELSE \E emptyRaises \in BOOLEAN :
                  LET t == read.table[1]
                      upd == update_ids(t.sample_ids, sid_map(t.sample_ids),
                                        emptyRaises)
                  IN  /\ loaded' = [loaded EXCEPT ![i] = Some(t)]
                      /\ table' = [table EXCEPT ![i] =
                                     Some([t EXCEPT !.sample_ids = upd.ids])]
                      /\ GotoOrRaise(i, upd.error, "assign",
                                     <<"load_table", "sample_ids">>)
    /\ UNCHANGED <<md5, fs, call, tmp, cmd, proc, obs_map, rep_sequences, result>>

\* Md5 of the upper-cased sequence instead of the id as it stands.
Md5_OfUpperCased(id) == md5[[p \in 1..Len(id) |-> Upper(id[p])]]

\* hashlib.md5(id_.encode('utf-8')).hexdigest()
Md5(id) == md5[id]

\* Lines 38-39: {id_: md5(id_) for id_ in table.ids(axis='observation')}.
fid_map(ids) == [id \in Range(ids) |-> Md5(id)]

\* Line 125: {i: i for i in table.ids(axis='observation')}.
identity_map(ids) == [id \in Range(ids) |-> id]

\* Lines 122-123, _hash_ids (lines 35-41).
hash_ids(i) ==
    /\ pc[i] = "assign"
    /\ Args(i).hashed_feature_ids
    /\ \E emptyRaises \in BOOLEAN :
         LET t == table[i][1]
             map == fid_map(t.observation_ids)
             upd == update_ids(t.observation_ids, map, emptyRaises)
         IN  /\ table' = [table EXCEPT ![i] =
                            Some([t EXCEPT !.observation_ids = upd.ids])]
             /\ obs_map' = [obs_map EXCEPT ![i] =
                              IF upd.error = None THEN Some(map) ELSE None]
             /\ GotoOrRaise(i, upd.error, "pair", <<"feature_ids">>)
    /\ UNCHANGED <<md5, fs, call, tmp, cmd, proc, loaded, rep_sequences, result>>

\* Lines 124-125.
unhashed_ids(i) ==
    /\ pc[i] = "assign"
    /\ ~ Args(i).hashed_feature_ids
    /\ obs_map' = [obs_map EXCEPT ![i] =
                     Some(identity_map(table[i][1].observation_ids))]
    /\ Goto(i, "pair", <<"feature_ids">>)
    /\ UNCHANGED <<md5, fs, call, tmp, cmd, proc, loaded, table,
                   rep_sequences, exc, result>>

\* The records of a dict iterated in the given order.
Records(m, order) == [k \in 1..Len(order) |-> DNA(order[k], m[order[k]])]

\* Lines 127-129: one record per item of obs_map, in the dict's order.
DNAIterator(i) ==
    /\ pc[i] = "pair"
    /\ \E order \in Orderings(DOMAIN obs_map[i][1]) :
         rep_sequences' = [rep_sequences EXCEPT ![i] = Records(obs_map[i][1], order)]
    /\ Goto(i, "exit", <<"rep_sequences">>)
    /\ UNCHANGED <<md5, fs, call, tmp, cmd, proc, loaded, table, obs_map,
                   exc, result>>

\* ExitDir of a create/delete pair with no try/finally: an exception skips
\* the removal.
ExitDir_NoFinally(f, dir, e) == IF e = None THEN Rmtree(f, dir) ELSE f

\* What leaving the with block does to the directory, e being the exception
\* that leaves it (None: the block ended).
ExitDir(f, dir, e) == Rmtree(f, dir)

\* Line 102, the end of the with block, reached normally or by an exception.
TemporaryDirectoryExit(i) ==
    /\ pc[i] = "exit"
    /\ fs' = ExitDir(fs, tmp[i][1], exc[i])
    /\ Goto(i, IF exc[i] = None THEN "return" ELSE "raise", <<"cleanup">>)
    /\ UNCHANGED <<md5, call, tmp, cmd, proc, loaded, table, obs_map,
                   rep_sequences, exc, result>>

\* Line 131.
Return(i) ==
    /\ pc[i] = "return"
    /\ result' = [result EXCEPT ![i] = Some([table |-> table[i][1],
                                             rep_sequences |-> rep_sequences[i]])]
    /\ Goto(i, "returned", <<"return">>)
    /\ UNCHANGED <<md5, fs, call, tmp, cmd, proc, loaded, table, obs_map,
                   rep_sequences, exc>>

\* The exception leaves _denoise_helper and the public function: no value is
\* returned.
Raise(i) ==
    /\ pc[i] = "raise"
    /\ Goto(i, "raised", <<"raise">>)
    /\ UNCHANGED <<md5, fs, call, tmp, cmd, proc, loaded, table, obs_map,
                   rep_sequences, exc, result>>

Step(i, argSet, tables) ==
    \/ denoise_16S(i, argSet)
    \/ denoise_other(i, argSet)
    \/ TemporaryDirectoryEnter(i)
    \/ BuildCmd(i)
    \/ subprocess_run(i, tables)
    \/ load_table(i)
    \/ hash_ids(i)
    \/ unhashed_ids(i)
    \/ DNAIterator(i)
    \/ TemporaryDirectoryExit(i)
    \/ Return(i)
    \/ Raise(i)

----------------------------------------------------------------------------
(* Spec: one invocation over every table, for the result normalizer.       *)

NormalizerArgs == ArgSets({150}, {5}, {10}, {3}, {10}, {2}, {1}, BOOLEAN)
AllTables == Tables(SampleIdPool, SequencePool)

Init == InitWith(Hashes)
Next == \E i \in {1} : Step(i, NormalizerArgs, AllTables)
Spec == Init /\ [][Next]_vars

(* SpecBuilder: one invocation over every combination of parameter values, *)
(* for the command line.                                                   *)

BuilderArgs ==
    ArgSets({-1, 0, 150}, {0, 5, 10}, {10, 500}, {0, 3}, {0, 10}, {2, 12},
            {1, 4}, BOOLEAN)
OneTable == Tables({<<"S","3">>}, {<<"A","C","G">>})
OneHash == {[s \in SequencePool |-> DigestA]}

InitBuilder == InitWith(OneHash)
NextBuilder == \E i \in {1} : Step(i, BuilderArgs, OneTable)
SpecBuilder == InitBuilder /\ [][NextBuilder]_vars

(* SpecConcurrent: two invocations, their steps interleaved.               *)

ConcurrentArgs == ArgSets({150}, {5}, {10}, {3}, {10}, {2}, {1, 4}, BOOLEAN)
FewTables == Tables({<<"S","1","_","0","0","1">>}, {<<"A","C","G">>})

InitConcurrent == InitWith(OneHash)
NextConcurrent == \E i \in Invocations : Step(i, ConcurrentArgs, FewTables)
SpecConcurrent == InitConcurrent /\ [][NextConcurrent]_vars

----------------------------------------------------------------------------
(* Properties.                                                             *)

Returned(i) == pc[i] = "returned"
Raised(i) == pc[i] = "raised"
Ended(i) == Returned(i) \/ Raised(i)

Count(s, x) == Cardinality({k \in 1..Len(s) : s[k] = x})
Ids(records) == [k \in 1..Len(records) |-> records[k].id]

\* C1: when an invocation returns, the identifiers on the returned table's
\* feature axis and the identifiers of the returned sequence records are the
\* same set, and each identifier of either occurs exactly once in the other.
C1_TableAndSequencesAgree ==
    \A i \in Invocations :
        Returned(i) =>
            LET axis == result[i][1].table.observation_ids
                ids == Ids(result[i][1].rep_sequences)
            IN  /\ Range(axis) = Range(ids)
                /\ \A id \in Range(axis) : Count(ids, id) = 1
                /\ \A id \in Range(ids) : Count(axis, id) = 1

\* A call with hashed ids returned a table of two features.
C1_Witness ==
    \E i \in Invocations :
        /\ Returned(i)
        /\ Args(i).hashed_feature_ids
        /\ Len(result[i][1].table.observation_ids) = 2
        /\ Len(result[i][1].rep_sequences) = 2

\* C2: a failure leaves no output.  If the external process exited with a
\* non-zero status, or exited with status 0 without having written
\* reference-hit.biom, the invocation is on its way out with an exception,
\* ends raised, and has returned neither a table nor sequences.
C2_FailureReturnsNothing ==
    \A i \in Invocations :
        /\ (proc[i] # None /\ proc[i][1].status # 0) =>
               /\ pc[i] \in {"exit", "raise", "raised"}
               /\ exc[i] # None
        /\ (proc[i] # None /\ proc[i][1].status = 0 /\ proc[i][1].wrote = None) =>
               /\ pc[i] \in {"load", "exit", "raise", "raised"}
               /\ pc[i] # "load" => exc[i] = Some("IOError")
        /\ exc[i] # None =>
               /\ ~ Returned(i)
               /\ result[i] = None
        /\ Ended(i) /\ exc[i] # None => Raised(i)

\* The process exited with status 0, wrote no table, and the call has ended.
C2_Witness ==
    \E i \in Invocations :
        /\ Raised(i)
        /\ proc[i][1].status = 0
        /\ proc[i][1].wrote = None
        /\ result[i] = None

\* C3: once an invocation has ended, by a return or by any exception, the
\* temporary directory it created does not exist.
C3_DirectoryGoneAtEnd ==
    \A i \in Invocations :
        Ended(i) => /\ tmp[i] # None
                    /\ ~ fs[tmp[i][1]].exists

\* The call ended by the exception update_ids raises on duplicate ids, after
\* the process had written its table into the directory.
C3_Witness ==
    \E i \in Invocations :
        /\ Raised(i)
        /\ exc[i] = Some("TableException")
        /\ proc[i][1].wrote # None
        /\ ~ fs[tmp[i][1]].exists

IsPrefix(p, s) == Len(p) <= Len(s) /\ \A k \in 1..Len(p) : p[k] = s[k]

\* token is what precedes the first '_' of id (all of id when it holds none).
IsFirstToken(token, id) ==
    /\ IsPrefix(token, id)
    /\ "_" \notin Range(token)
    /\ Len(token) < Len(id) => id[Len(token) + 1] = "_"

\* C4: after the sample cleanup of _load_table, the table has as many sample
\* identifiers as the loaded one, each is the token before the first '_' of
\* the identifier it replaces, and none contains '_'; the returned table
\* carries these identifiers.
C4_SampleIdsAreFirstTokens ==
    \A i \in Invocations :
        /\ table[i] # None =>
               LET new == table[i][1].sample_ids
                   old == loaded[i][1].sample_ids
               IN  /\ Len(new) = Len(old)
                   /\ \A k \in 1..Len(new) : IsFirstToken(new[k], old[k])
        /\ Returned(i) =>
               result[i][1].table.sample_ids = table[i][1].sample_ids

\* The samples 'S1_001' and 'S2_002' have become 'S1' and 'S2' in a returned
\* table.
C4_Witness ==
    \E i \in Invocations :
        /\ Returned(i)
        /\ loaded[i][1].sample_ids =
               << <<"S","1","_","0","0","1">>, <<"S","2","_","0","0","2">> >>
        /\ result[i][1].table.sample_ids = << <<"S","1">>, <<"S","2">> >>

IsHexDigest(id) == Len(id) = DigestLen /\ Range(id) \subseteq HexDigits

LowerOf == [c \in {"A", "C", "G", "T"} |->
              CASE c = "A" -> "a" [] c = "C" -> "c" [] c = "G" -> "g"
                [] c = "T" -> "t"]

\* The record holds the nucleotides of `original`, upper case, and marks the
\* positions that were lower case.
HoldsUpperCased(rec, original) ==
    /\ Len(rec.sequence) = Len(original)
    /\ Len(rec.ignore) = Len(original)
    /\ \A p \in 1..Len(original) :
         IF rec.ignore[p]
         THEN rec.sequence[p] \in DOMAIN LowerOf
              /\ original[p] = LowerOf[rec.sequence[p]]
         ELSE rec.sequence[p] = original[p]

\* The feature axis and the records of a returned result follow policy F
\* (original sequence -> identifier), the record's sequence being
\* Holds(record, original sequence).
FollowsPolicy(i, F(_), Holds(_, _)) ==
    LET old == loaded[i][1].observation_ids
        new == result[i][1].table.observation_ids
        recs == result[i][1].rep_sequences
    IN  /\ Len(new) = Len(old)
        /\ \A k \in 1..Len(old) : new[k] = F(old[k])
        /\ Len(recs) = Len(old)
        /\ \A k \in 1..Len(recs) :
             \E j \in 1..Len(old) : /\ recs[k].id = F(old[j])
                                    /\ Holds(recs[k], old[j])

Verbatim(rec, original) == rec.sequence = original
HashOf(id) == md5[id]
Itself(id) == id

\* C5 as stated: every feature identifier of a returned table is, with
\* hashed_feature_ids, the 32-digit hexadecimal MD5 of its original sequence
\* and, without, the original sequence itself on an unchanged axis; and the
\* record paired with an identifier holds that original sequence.
C5_AsStated ==
    \A i \in Invocations :
        Returned(i) =>
            IF Args(i).hashed_feature_ids
            THEN /\ FollowsPolicy(i, HashOf, Verbatim)
                 /\ \A id \in Range(result[i][1].table.observation_ids) :
                      IsHexDigest(id)
            ELSE /\ FollowsPolicy(i, Itself, Verbatim)
                 /\ result[i][1].table.observation_ids =
                        loaded[i][1].observation_ids

\* C5 as amended: the same, the record paired with an identifier holding
\* the original sequence with its lower-case nucleotides converted to upper
\* case and their positions marked.
C5_FeatureIdPolicy ==
    \A i \in Invocations :
        Returned(i) =>
            IF Args(i).hashed_feature_ids
            THEN /\ FollowsPolicy(i, HashOf, HoldsUpperCased)
                 /\ \A id \in Range(result[i][1].table.observation_ids) :
                      IsHexDigest(id)
            ELSE /\ FollowsPolicy(i, Itself, HoldsUpperCased)
                 /\ result[i][1].table.observation_ids =
                        loaded[i][1].observation_ids

\* A call with hashed ids returned two features, one of them a sequence with
\* lower-case nucleotides.
C5_Witness ==
    \E i \in Invocations :
        /\ Returned(i)
        /\ Args(i).hashed_feature_ids
        /\ loaded[i][1].observation_ids = << <<"a","C","g">>, <<"T","T","A">> >>
        /\ Len(result[i][1].rep_sequences) = 2

\* The arguments of two calls differ in jobs_to_start and in nothing else.
DifferOnlyInJobs(a, b) ==
    /\ a.jobs_to_start # b.jobs_to_start
    /\ [a EXCEPT !.jobs_to_start = b.jobs_to_start] = b

\* C6: jobs_to_start reaches the external tool: two invocations whose
\* arguments differ only in jobs_to_start build different command lines.
C6_JobsToStartForwarded ==
    \A i, j \in Invocations :
        (/\ cmd[i] # <<>>
         /\ cmd[j] # <<>>
         /\ DifferOnlyInJobs(Args(i), Args(j)))
        => cmd[i] # cmd[j]

\* The decimal text of the integers callers pass.
IntText(n) ==
    CASE n = -1 -> "-1" [] n = 0 -> "0" [] n = 1 -> "1" [] n = 2 -> "2"
      [] n = 3 -> "3" [] n = 4 -> "4" [] n = 10 -> "10" [] n = 12 -> "12"
      [] n = 150 -> "150"

\* The text of the floats callers pass (in thousandths).
FloatText(m) ==
    CASE m = 0 -> "0.0" [] m = 5 -> "0.005" [] m = 10 -> "0.01"
      [] m = 500 -> "0.5"

\* C7: the command line is 'deblur workflow --seqs-fp <input> --output-dir
\* <tmp> --mean-error <v> --indel-prob <v> --indel-max <v> --trim-length <v>
\* --min-reads <v> --min-size <v> -w', each value the text of the caller's
\* argument (-1 as "-1"), followed by '--pos-ref-fp <reference>' exactly
\* when a reference was given: never for denoise_16S, always for
\* denoise_other, and never with an empty value.
C7_CommandLine ==
    \A i \in Invocations :
        cmd[i] # <<>> =>
            LET a == Args(i)
                c == cmd[i]
            IN  /\ SubSeq(c, 1, 19) =
                     <<"deblur", "workflow",
                       "--seqs-fp", a.demultiplexed_seqs,
                       "--output-dir", tmp[i][1],
                       "--mean-error", FloatText(a.mean_error),
                       "--indel-prob", FloatText(a.indel_prob),
                       "--indel-max", IntText(a.indel_max),
                       "--trim-length", IntText(a.trim_length),
                       "--min-reads", IntText(a.min_reads),
                       "--min-size", IntText(a.min_size),
                       "-w">>
                /\ "" \notin Range(c)
                /\ a.fn = "denoise_16S" =>
                       /\ Len(c) = 19
                       /\ "--pos-ref-fp" \notin Range(c)
                /\ a.fn = "denoise_other" =>
                       /\ Len(c) = 21
                       /\ c[20] = "--pos-ref-fp"
                       /\ c[21] \in References
                       /\ Some(c[21]) = a.reference_seqs

\* denoise_other built its command line with trimming disabled.
C7_Witness ==
    \E i \in Invocations :
        /\ cmd[i] # <<>>
        /\ Args(i).fn = "denoise_other"
        /\ Args(i).trim_length = -1
        /\ Args(i).mean_error = 10
        /\ Len(cmd[i]) = 21

\* The positions of step x in the log of invocation i.
At(i, x) == {k \in 1..Len(log[i]) : log[i][k] = x}
Before(i, x, y) == \A j \in At(i, x), k \in At(i, y) : j < k

\* C8: an invocation is one linear pass.  The external process is started at
\* most once; the table is loaded only after the process exited with status
\* 0; the sample cleanup precedes the feature-identifier assignment; the
\* directory is removed once, never before the table is loaded from it, and
\* before the call ends; a call that returns has taken exactly the steps
\* mkdtemp, cmd, run, load, sample ids, feature ids, records, cleanup, return.
C8_LinearPass ==
    \A i \in Invocations :
        /\ Count(log[i], "run") <= 1
        /\ Count(log[i], "cleanup") <= 1
        /\ At(i, "load_table") # {} =>
               /\ proc[i] # None
               /\ proc[i][1].status = 0
               /\ Before(i, "run", "load_table")
        /\ Before(i, "load_table", "sample_ids")
        /\ Before(i, "sample_ids", "feature_ids")
        /\ Before(i, "feature_ids", "rep_sequences")
        /\ Before(i, "load_table", "cleanup")
        /\ Before(i, "cleanup", "return")
        /\ Before(i, "cleanup", "raise")
        /\ Ended(i) => Count(log[i], "cleanup") = 1
        /\ Returned(i) =>
               log[i] = <<"mkdtemp", "cmd", "run", "load_table", "sample_ids",
                          "feature_ids", "rep_sequences", "cleanup", "return">>

\* A call has returned after a process that exited with status 0.
C8_Witness ==
    \E i \in Invocations :
        /\ Returned(i)
        /\ proc[i][1].status = 0
        /\ Len(log[i]) = 9

InScope(i) == pc[i] \in {"build", "run", "load", "assign", "pair", "exit"}

\* Invocation i's directory is its own: it exists while i is inside the with
\* block and, once i's process has run, holds what that process wrote.
OwnDirectory(i) ==
    InScope(i) =>
        /\ fs[tmp[i][1]].exists
        /\ proc[i] # None => fs[tmp[i][1]].file = proc[i][1].wrote

\* A step that is not invocation i's leaves i's directory alone.
LeavesAlone(i) ==
    (pc'[i] = pc[i]) =>
        /\ table'[i] = table[i]
        /\ rep_sequences'[i] = rep_sequences[i]
        /\ result'[i] = result[i]
        /\ InScope(i) => fs'[tmp[i][1]] = fs[tmp[i][1]]

C9_State ==
    /\ \A i, j \in Invocations :
         i # j /\ InScope(i) /\ InScope(j) => tmp[i] # tmp[j]
    /\ \A i \in Invocations :
         /\ OwnDirectory(i)
         /\ loaded[i] # None => Some(loaded[i][1]) = proc[i][1].wrote

\* C9: under every interleaving of two invocations, the two directories are
\* distinct while both are in use, each invocation loads the table its own
\* process wrote into its own directory, and no step of one invocation (its
\* cleanup and its failure included) changes the other's directory, table,
\* sequence records or result.
C9_ConcurrentInvocationsIsolated ==
    /\ []C9_State
    /\ [][\A i \in Invocations : LeavesAlone(i)]_vars

\* One invocation has failed and removed its directory while the other is
\* about to load the table its process wrote.
C9_Witness ==
    \E i, j \in Invocations :
        /\ i # j
        /\ Raised(i)
        /\ pc[j] = "load"
        /\ fs[tmp[j][1]].file # None

\* Two sample identifiers of the loaded table share the token before '_'.
SharedToken(ids) ==
    \E j, k \in 1..Len(ids) : j # k /\ IsFirstToken(SplitFirst(ids[j]), ids[k])

\* C10: a returned table has pairwise distinct sample identifiers and as
\* many samples as the loaded table; when two sample identifiers of the
\* loaded table share the token before the first '_', the call does not
\* return a table.
C10_SamplesNeverMerged ==
    \A i \in Invocations :
        /\ Returned(i) =>
               /\ IsDistinct(result[i][1].table.sample_ids)
               /\ Len(result[i][1].table.sample_ids) = Len(loaded[i][1].sample_ids)
        /\ (loaded[i] # None /\ SharedToken(loaded[i][1].sample_ids)) =>
               /\ ~ Returned(i)
               /\ result[i] = None
               /\ exc[i] = Some("TableException")

\* The loaded table held 'S1_001' and 'S1_002' and the call ended without a
\* table.
C10_Witness ==
    \E i \in Invocations :
        /\ Raised(i)
        /\ loaded[i] # None
        /\ loaded[i][1].sample_ids =
               << <<"S","1","_","0","0","1">>, <<"S","1","_","0","0","2">> >>
        /\ result[i] = None

====
